---------------------------- MODULE Spec2Model ----------------------------
(***************************************************************************)
(* Model of src/app.py: the Streamlit movie recommender.                   *)
(*                                                                         *)
(*   - score_plot_coherence  (Plot Scorer)      specification SpecScore    *)
(*   - get_tmdb_recommendations (Catalog Client) specification SpecFetch   *)
(*   - the script body, one run per user interaction (Orchestrator, with   *)
(*     detect_genre_from_text, the Genre Resolver) specification Spec      *)
(*                                                                         *)
(* Text is modelled as a sequence of fragments.  A fragment of a scoring   *)
(* reply is one character or one artifact holding no digit and no dot; a   *)
(* fragment of a classification reply is one word.                         *)
(***************************************************************************)
EXTENDS Integers, Sequences, FiniteSets, TLC

VARIABLES
    OPENROUTER_API_KEY,   \* os.getenv("OPENROUTER_API_KEY")
    TMDB_API_KEY,         \* os.getenv("TMDB_API_KEY")
    scorer,               \* SpecScore: one call of score_plot_coherence
    fetch,                \* SpecFetch: one call of get_tmdb_recommendations
    user_request,         \* value of the text input of the second tab
    num_movies,           \* value of the "Number of Movies" slider
    detected_genre,       \* detect_genre_from_text's return in the last run (None: not called)
    selected_genre,       \* selected_genre at the end of the last run
    session_state,        \* st.session_state, a dict
    movies,               \* the list the last run fetched and displayed (<<>>: none)
    scored_from,          \* history: per score key, the movie the scorer was given
    last                  \* history: the last interaction and the calls its runs made

app == <<user_request, num_movies, detected_genre, selected_genre,
         session_state, movies, scored_from, last>>

vars == <<OPENROUTER_API_KEY, TMDB_API_KEY, scorer, fetch, app>>

\* A parameter named like a variable of the module (num_movies, movies) is written with a trailing underscore.

\* Python's None
None == "None"

\* Python truthiness of a str-or-None value: None and "" are falsy
Truthy(x) == x /= None /\ x /= ""

\* What os.getenv can give for a credential: unset, set but empty, set
KeyValues == {None, "", "key"}

\* no call under way: the value of scorer and fetch outside their specifications
IdleCall == [done |-> TRUE]

---------------------------------------------------------------------------
(* Bounds *)

\* longest scoring reply, in fragments
MaxLen == 4

\* largest retry_count tried
MaxRetry == 3

\* largest num_movies tried by SpecFetch (the slider allows up to 15)
MaxNumMovies == 4

\* longest "results" list of a catalog answer
MaxResults == 5

---------------------------------------------------------------------------
(* score_plot_coherence *)

Digits == {"0", "1", "2", "3", "4", "5", "6", "7", "8", "9"}

DigitChars == <<"0", "1", "2", "3", "4", "5", "6", "7", "8", "9">>

DigitVal(c) == (CHOOSE i \in 1..10 : DigitChars[i] = c) - 1

\* the fragments a scoring reply is drawn from
ReplyAlphabet == {"0", "1", "5", "7", "8", ".", "-", "<|eot|>"}

RECURSIVE SeqsUpTo(_, _)
SeqsUpTo(S, n) ==
    IF n = 0 THEN {<<>>}
    ELSE LET shorter == SeqsUpTo(S, n - 1)
         IN  shorter \cup {Append(s, x) : s \in {t \in shorter : Len(t) = n - 1}, x \in S}

\* re.sub(r"[^0-9.]", "", content)
Cleaned(content) == SelectSeq(content, LAMBDA c : c \in Digits \cup {"."})

RECURSIVE DigitsValue(_)
DigitsValue(ds) ==
    IF ds = <<>> THEN 0
    ELSE 10 * DigitsValue(SubSeq(ds, 1, Len(ds) - 1)) + DigitVal(ds[Len(ds)])

RECURSIVE Pow10(_)
Pow10(k) == IF k = 0 THEN 1 ELSE 10 * Pow10(k - 1)

\* float(cleaned) raises ValueError unless the digits-and-dots string is a
\* decimal numeral: at least one digit, at most one dot
FloatParses(cleaned) ==
    /\ Cardinality({i \in 1..Len(cleaned) : cleaned[i] = "."}) <= 1
    /\ \E i \in 1..Len(cleaned) : cleaned[i] \in Digits

\* float(cleaned) as the fraction num / den, den a power of ten
FloatOf(cleaned) ==
    LET dots == {i \in 1..Len(cleaned) : cleaned[i] = "."}
        p    == IF dots = {} THEN Len(cleaned) + 1 ELSE CHOOSE i \in dots : TRUE
        ds   == SelectSeq(cleaned, LAMBDA c : c \in Digits)
    IN  [num |-> DigitsValue(ds), den |-> Pow10(Len(cleaned) + 1 - p - (IF dots = {} THEN 0 ELSE 1))]

\* The two-decimal values d.a5 in [1,10] whose binary64 nearest value lies
\* above the decimal tie, so that "{:.1f}" rounds them up (in hundredths)
RoundUpTies ==
    {105, 135, 155, 175, 185, 235, 245, 275, 285, 295, 335, 345, 375, 385, 395,
     415, 445, 465, 475, 495, 515, 545, 565, 575, 595, 615, 645, 665, 675, 695,
     715, 745, 765, 775, 795, 805, 815, 855, 865, 875, 905, 915, 955, 965, 975}

\* f"{val:.1f}" of val = num/den in [1,10], as a number of tenths
Tenths(v) ==
    LET t == (v.num * 10) \div v.den
        r == v.num * 10 - t * v.den
    IN  IF 2 * r > v.den THEN t + 1
        ELSE IF 2 * r < v.den THEN t
        ELSE IF (v.num * 100) \div v.den \in RoundUpTies THEN t + 1 ELSE t

\* f"{val:.1f}/10"
FormatScore(v) ==
    ToString(Tenths(v) \div 10) \o "." \o ToString(Tenths(v) % 10) \o "/10"

\* 1 <= val <= 10
InRange(v) == v.den <= v.num /\ v.num <= 10 * v.den

\* lines 116-124: what the try block returns for a reply text
ParseScore(content) ==
    LET cleaned == Cleaned(content)
    IN  IF cleaned /= <<>> /\ FloatParses(cleaned) /\ InRange(FloatOf(cleaned))
        THEN FormatScore(FloatOf(cleaned))
        ELSE "N/A"

\* the exceptions the try block of an LLM call can meet: requests.post,
\* raise_for_status, resp.json(), [0] of an empty list, .strip() of null
LLMFailures == {"Timeout", "HTTPError", "JSONDecodeError", "IndexError", "AttributeError"}

\* line 80 without the sentinel test
ShortCircuit_NoSentinel(plot) ==
    \/ ~Truthy(OPENROUTER_API_KEY)
    \/ ~Truthy(plot)

\* line 80
ShortCircuit(plot) ==
    \/ ~Truthy(OPENROUTER_API_KEY)
    \/ ~Truthy(plot)
    \/ plot = "No summary available."

\* score_plot_coherence, given what the endpoint answers (llm): the returned
\* score and the number of requests.post calls made
score_plot_coherence(movie_title, plot, genre, llm) ==
    IF ShortCircuit(plot)
    THEN [score |-> "N/A", calls |-> 0]
    ELSE IF llm.kind = "reply"
    THEN [score |-> ParseScore(llm.content), calls |-> 1]
    ELSE [score |-> "N/A", calls |-> 1]

ScoreReplies == [kind : {"reply"}, content : SeqsUpTo(ReplyAlphabet, MaxLen)]

ScoreOutcomes == ScoreReplies \cup [kind : LLMFailures, content : {<<>>}]

Plots == {None, "", "No summary available.", "A heist goes wrong."}

InitKeys ==
    /\ OPENROUTER_API_KEY \in KeyValues
    /\ TMDB_API_KEY \in KeyValues

---------------------------------------------------------------------------
(* get_tmdb_recommendations *)

\* GENRE_MAP.keys(), in the dict's order
GenreKeys ==
    <<"action", "adventure", "animation", "comedy", "crime", "documentary",
      "drama", "family", "fantasy", "history", "horror", "music", "mystery",
      "romance", "science fiction", "sci-fi", "thriller", "war", "western">>

GenreCodes ==
    <<28, 12, 16, 35, 80, 99, 18, 10751, 14, 36, 27, 10402, 9648, 10749, 878,
      878, 53, 10752, 37>>

Taxonomy == {GenreKeys[i] : i \in 1..Len(GenreKeys)}

GENRE_MAP == [g \in Taxonomy |-> GenreCodes[CHOOSE i \in 1..Len(GenreKeys) : GenreKeys[i] = g]]

\* GENRE_MAP.get(..., 18)
DefaultGenreCode == 18

\* min_value of the "Number of Movies" slider
NumMoviesMin == 3

\* str.lower() on the genre and reply words of the model
Lower(s) ==
    CASE s = "Comedy" -> "comedy"
      [] s = "Horror" -> "horror"
      [] s = "DRAMA"  -> "drama"
      [] s = "Noir"   -> "noir"
      [] OTHER        -> s

\* dict.get(key, default)
Get(d, key, default) == IF key \in DOMAIN d THEN d[key] ELSE default

\* entries of the "results" list of a discover answer
RawHeat ==
    [title |-> "Heat", overview |-> "A heist goes wrong.", release_date |-> "1995-12-15",
     vote_average |-> 8, poster_path |-> "/heat.jpg", popularity |-> 90]

RawRan ==
    [title |-> "Ran", overview |-> "", release_date |-> "1985-06-01",
     vote_average |-> 8, poster_path |-> None]

RawMovies == {RawHeat, RawRan}

\* lines 153-161: one raw result as a movie dict
Normalize(movie) ==
    [title        |-> Get(movie, "title", None),
     overview     |-> Get(movie, "overview", None),
     release_date |-> Get(movie, "release_date", None),
     vote_average |-> Get(movie, "vote_average", None),
     poster_path  |-> IF Get(movie, "poster_path", None) \notin {None, ""}
                      THEN "https://image.tmdb.org/t/p/w500" \o Get(movie, "poster_path", None)
                      ELSE None,
     popularity   |-> Get(movie, "popularity", 0)]

\* the results taken whole, the slice forgotten
Slice_NoTruncation(results, n) == results

\* the slice results[:n]
Slice(results, n) ==
    IF n >= 0
    THEN SubSeq(results, 1, IF n < Len(results) THEN n ELSE Len(results))
    ELSE SubSeq(results, 1, IF Len(results) + n > 0 THEN Len(results) + n ELSE 0)

\* The network as the catalog call meets it: the first Len(fails) requests
\* fail in transport, every later request gets the answer `then`.
NetAnswer(net, attempt) ==
    IF attempt < Len(net.fails) THEN [kind |-> net.fails[attempt + 1]] ELSE net.then

\* the retry test giving up one attempt early
RetryAllowed_OneFewer(attempt, retry_count) == attempt < retry_count - 2

\* lines 165 and 173: is another attempt left after a failed one
RetryAllowed(attempt, retry_count) == attempt < retry_count - 1

\* the value every return of get_tmdb_recommendations is reported as: the
\* movies, the number of requests.get calls, the provider code requested,
\* which st.error path ended the call, and whether an exception escaped
FetchReturn(movies_, attempts, genre_id, report) ==
    [movies |-> movies_, attempts |-> attempts, genre_id |-> genre_id,
     report |-> report, raised |-> FALSE]

\* the loop of get_tmdb_recommendations from iteration `attempt` on
RECURSIVE FetchLoop(_, _, _, _, _)
FetchLoop(genre, num_movies_, retry_count, net, attempt) ==
    LET genre_id == Get(GENRE_MAP, Lower(genre), DefaultGenreCode)
        answer   == NetAnswer(net, attempt)
    IN  IF attempt >= retry_count
        THEN FetchReturn(<<>>, attempt, genre_id, None)
        ELSE CASE answer.kind = "ok" ->
                    LET kept == Slice(Get(answer.data, "results", <<>>), num_movies_)
                    IN  FetchReturn([i \in 1..Len(kept) |-> Normalize(kept[i])],
                                    attempt + 1, genre_id, None)
               [] answer.kind = "ConnectTimeout" ->
                    IF RetryAllowed(attempt, retry_count)
                    THEN FetchLoop(genre, num_movies_, retry_count, net, attempt + 1)
                    ELSE FetchReturn(<<>>, attempt + 1, genre_id, "timeout")
               [] answer.kind = "RequestException" ->
                    IF RetryAllowed(attempt, retry_count)
                    THEN FetchLoop(genre, num_movies_, retry_count, net, attempt + 1)
                    ELSE FetchReturn(<<>>, attempt + 1, genre_id, "request")
               [] OTHER ->
                    FetchReturn(<<>>, attempt + 1, genre_id, "unexpected")

get_tmdb_recommendations(genre, num_movies_, retry_count, net) ==
    FetchLoop(genre, num_movies_, retry_count, net, 0)

\* a 200 answer with its JSON body
Ok(data) == [kind |-> "ok", data |-> data]

\* bodies of a 200 answer: a "results" list, or no such key
Bodies == {[results |-> r] : r \in SeqsUpTo(RawMovies, MaxResults)} \cup {[page |-> 1]}

\* the answer that ends the transport failures: a body, or an answer whose
\* handling raises something that is no RequestException
FinalAnswers == {Ok(d) : d \in Bodies} \cup {[kind |-> "Exception"]}

Nets ==
    [fails : SeqsUpTo({"ConnectTimeout", "RequestException"}, MaxRetry + 1),
     then  : FinalAnswers]

---------------------------------------------------------------------------
(* detect_genre_from_text *)

\* the taxonomy members found as substrings of one word of a reply
Inside(word) ==
    IF word \in Taxonomy THEN {word}
    ELSE IF word = "musical" THEN {"music"}
    ELSE {}

\* `genre in content`, content being the reply stripped and lowercased
Contains(g, content) == \E i \in 1..Len(content) : g \in Inside(Lower(content[i]))

\* lines 68-71: the first key of GENRE_MAP found in the reply, else None
FirstGenreIn(content) ==
    LET hits == {i \in 1..Len(GenreKeys) : Contains(GenreKeys[i], content)}
    IN  IF hits = {} THEN None
        ELSE GenreKeys[CHOOSE i \in hits : \A j \in hits : i <= j]

\* detect_genre_from_text, given what the endpoint answers (llm): the
\* returned genre or None, and the number of requests.post calls made
detect_genre_from_text(text, llm) ==
    IF ~Truthy(OPENROUTER_API_KEY)
    THEN [genre |-> None, calls |-> 0]
    ELSE IF llm.kind = "reply"
    THEN [genre |-> FirstGenreIn(llm.content), calls |-> 1]
    ELSE [genre |-> None, calls |-> 1]

---------------------------------------------------------------------------
(* The script body: one run per user interaction *)

\* retry_count's default, the value every call of the script uses
DefaultRetryCount == 3

\* value of the "Number of Movies" slider before the user moves it
NumMoviesDefault == 8

\* max_value of the slider: no score key has a larger index
NumMoviesMax == 15

\* dict[key] = value
Put(d, key, value) == [k \in DOMAIN d \cup {key} |-> IF k = key THEN value ELSE d[k]]

\* the dict without the keys of `keys`
Without(d, keys) == [k \in DOMAIN d \ keys |-> d[k]]

\* f'score_{idx}'
ScoreKey(idx) == "score_" \o ToString(idx)

\* the keys of a dict for which key.startswith('score_') holds
ScoreKeys(d) == DOMAIN d \cap {ScoreKey(i) : i \in 1..NumMoviesMax}

\* line 314
Recommending(ss) == "get_recommendations" \in DOMAIN ss /\ ss["get_recommendations"]

\* lines 321 and 386-410: the three action buttons are drawn only below a
\* non-empty list
ActionButtonsShown == Recommending(session_state) /\ movies /= <<>>

\* line 293 without the catalog credential
KeysLoaded_LLMOnly == Truthy(OPENROUTER_API_KEY)

\* line 293
KeysLoaded == Truthy(OPENROUTER_API_KEY) /\ Truthy(TMDB_API_KEY)

\* lines 277-287 with the fallback of line 285 forgotten
SelectedGenre_NoFallback(text, detected) ==
    IF Truthy(text) THEN detected ELSE "drama"

\* lines 270-287: selected_genre.  The selectbox value assigned on line 270
\* is overwritten on every path through the second tab.
SelectedGenre(text, detected) ==
    IF Truthy(text)
    THEN IF Truthy(detected) THEN detected ELSE "drama"
    ELSE "drama"

\* lines 277-279: the classifier is called only for a non-empty request
Detected(text, llm) ==
    IF Truthy(text) THEN detect_genre_from_text(text, llm).genre ELSE None

\* lines 314-319: the list the run fetches, <<>> when the flag is not set
Fetched(ss, net) ==
    IF Recommending(ss)
    THEN get_tmdb_recommendations(ss["genre"], ss["num_movies"], DefaultRetryCount, net).movies
    ELSE <<>>

\* the title and plot of a movie dict, as the scorer is given them
Given(movie) == [title |-> movie.title, overview |-> movie.overview]

(* the inputs of the runs *)

\* what the text input can hold
Requests == {"", "something funny"}

SliderValues == {NumMoviesMin, NumMoviesDefault}

\* an answer that no call asks for
Unused == [kind |-> "unused"]

\* answers of the classification endpoint
GenreOutcomes ==
    {[kind |-> "reply", content |-> <<"Comedy">>],
     [kind |-> "reply", content |-> <<"a", "musical", "drama">>],
     [kind |-> "reply", content |-> <<"romcom">>],
     [kind |-> "Timeout"]}

\* answers of the scoring endpoint
AppScoreOutcomes ==
    {[kind |-> "reply", content |-> <<"7", ".", "5">>],
     [kind |-> "Timeout"]}

\* the catalog: an immediate answer, or three timeouts
AppNets ==
    {[fails |-> <<>>, then |-> Ok([results |-> r])] :
         r \in {<<>>, <<RawHeat, RawRan>>, <<RawRan, RawHeat>>}}
    \cup {[fails |-> <<"ConnectTimeout", "ConnectTimeout", "ConnectTimeout">>,
           then |-> Ok([results |-> <<RawHeat, RawRan>>])]}

\* the longest list a run can fetch
MaxShown == 2

\* what detect_genre_from_text can return to a run, over the answers of the
\* endpoint (no answer where the run makes no call)
DetectedValues(text) ==
    {Detected(text, llm) :
        llm \in IF Truthy(text) /\ Truthy(OPENROUTER_API_KEY) THEN GenreOutcomes ELSE {Unused}}

\* the lists a run can fetch, over the behaviours of the catalog
FetchedValues(ss) ==
    {Fetched(ss, net) : net \in IF Recommending(ss) THEN AppNets ELSE {Unused}}

Calls(event, invoked, scorer_calls, fetches) ==
    [event |-> event, scorer_invoked |-> invoked, scorer_calls |-> scorer_calls,
     fetches |-> fetches]

\* the state after the first run of the script: default widget values, an
\* empty session
FirstRun ==
    /\ user_request = ""
    /\ num_movies = NumMoviesDefault
    /\ detected_genre = None
    /\ selected_genre = SelectedGenre("", None)
    /\ session_state = <<>>
    /\ movies = <<>>
    /\ scored_from = <<>>
    /\ last = Calls("load", {}, 0, 0)

\* A run in which no button handler acts: the widgets are read, the
\* classifier is asked, the list is fetched and drawn.
Rerun(event, text, n) ==
    \E detected \in DetectedValues(text), fetched \in FetchedValues(session_state) :
        /\ user_request' = text
        /\ num_movies' = n
        /\ detected_genre' = detected
        /\ selected_genre' = SelectedGenre(text, detected)
        /\ movies' = fetched
        /\ last' = Calls(event, {}, 0, IF Recommending(session_state) THEN 1 ELSE 0)
        /\ UNCHANGED <<session_state, scored_from>>
        /\ UNCHANGED <<OPENROUTER_API_KEY, TMDB_API_KEY, scorer, fetch>>

\* The user picks another entry of the selectbox.  Its value is not kept:
\* line 270 copies it to selected_genre, and every path through lines
\* 277-287 overwrites that.
SelectGenre == Rerun("select", user_request, num_movies)

\* the user edits the text input
EditRequest == \E text \in Requests \ {user_request} : Rerun("edit", text, num_movies)

\* the user moves the slider
MoveSlider == \E n \in SliderValues \ {num_movies} : Rerun("slide", user_request, n)

\* lines 410-422: "Show Summary" draws statistics and stores nothing
ShowSummary ==
    /\ ActionButtonsShown
    /\ Rerun("summary", user_request, num_movies)

\* lines 292-298, then the results section: "Recommend Movies"
RecommendMovies ==
    \E detected \in DetectedValues(user_request) :
        \E ss \in {IF KeysLoaded
                   THEN Put(Put(Put(session_state, "get_recommendations", TRUE),
                                "genre", SelectedGenre(user_request, detected)),
                            "num_movies", num_movies)
                   ELSE session_state} :
            \E fetched \in FetchedValues(ss) :
                /\ detected_genre' = detected
                /\ selected_genre' = SelectedGenre(user_request, detected)
                /\ session_state' = ss
                /\ movies' = fetched
                /\ last' = Calls("recommend", {}, 0, IF Recommending(ss) THEN 1 ELSE 0)
                /\ UNCHANGED <<user_request, num_movies, scored_from>>
                /\ UNCHANGED <<OPENROUTER_API_KEY, TMDB_API_KEY, scorer, fetch>>

\* f"score_{idx}_{movie['title']}", the key of a "Get AI Score" button
ButtonKey(idx, title) == "score_" \o ToString(idx) \o "_" \o title

\* lines 367-373: "Get AI Score" of the movie drawn at idx.  The run fetches
\* the list again; the handler acts if the button of that key is drawn again.
GetAIScore ==
    \E idx \in 1..Len(movies) :
        \E detected \in DetectedValues(user_request),
           fetched \in FetchedValues(session_state) :
            /\ detected_genre' = detected
            /\ selected_genre' = SelectedGenre(user_request, detected)
            /\ movies' = fetched
            /\ UNCHANGED <<user_request, num_movies>>
            /\ UNCHANGED <<OPENROUTER_API_KEY, TMDB_API_KEY, scorer, fetch>>
            /\ IF idx <= Len(fetched)
                  /\ ButtonKey(idx, fetched[idx].title) = ButtonKey(idx, movies[idx].title)
               THEN \E sllm \in AppScoreOutcomes :
                      \E r \in {score_plot_coherence(fetched[idx].title, fetched[idx].overview,
                                                     session_state["genre"], sllm)} :
                        /\ session_state' = Put(session_state, ScoreKey(idx), r.score)
                        /\ scored_from' = Put(scored_from, ScoreKey(idx), Given(fetched[idx]))
                        /\ last' = Calls("score", {idx}, r.calls, 1)
               ELSE /\ UNCHANGED <<session_state, scored_from>>
                    /\ last' = Calls("score", {}, 0, 1)

\* lines 391-397: "Try Another Search".  The handler acts if the run that
\* the click starts draws the button again, that is, fetches a non-empty
\* list; st.rerun() then starts a second run, which fetches nothing.
TryAnotherSearch ==
    /\ ActionButtonsShown
    /\ \E detected \in DetectedValues(user_request),
          fetched \in FetchedValues(session_state) :
        /\ detected_genre' = detected
        /\ selected_genre' = SelectedGenre(user_request, detected)
        /\ movies' = <<>>
        /\ session_state' =
               IF fetched /= <<>>
               THEN Put(Without(session_state, ScoreKeys(session_state)),
                        "get_recommendations", FALSE)
               ELSE session_state
        /\ scored_from' = IF fetched /= <<>> THEN <<>> ELSE scored_from
        /\ last' = Calls("reset", {}, 0, 1)
        /\ UNCHANGED <<user_request, num_movies>>
        /\ UNCHANGED <<OPENROUTER_API_KEY, TMDB_API_KEY, scorer, fetch>>

\* lines 402-405 from index idx on: the dict, the history and the calls made
RECURSIVE ScoreAll(_, _, _, _, _)
ScoreAll(ss, from, list, sllms, idx) ==
    IF idx > Len(list)
    THEN [ss |-> ss, from |-> from, invoked |-> {}, calls |-> 0]
    ELSE IF ScoreKey(idx) \notin DOMAIN ss
    THEN LET r    == score_plot_coherence(list[idx].title, list[idx].overview,
                                          ss["genre"], sllms[idx])
             rest == ScoreAll(Put(ss, ScoreKey(idx), r.score),
                              Put(from, ScoreKey(idx), Given(list[idx])),
                              list, sllms, idx + 1)
         IN  [rest EXCEPT !.invoked = @ \cup {idx}, !.calls = @ + r.calls]
    ELSE ScoreAll(ss, from, list, sllms, idx + 1)

\* lines 400-407: "Score All Plots", with the run st.rerun() starts
ScoreAllPlots ==
    /\ ActionButtonsShown
    /\ \E detected \in DetectedValues(user_request),
          fetched \in FetchedValues(session_state) :
        /\ detected_genre' = detected
        /\ selected_genre' = SelectedGenre(user_request, detected)
        /\ UNCHANGED <<user_request, num_movies>>
        /\ UNCHANGED <<OPENROUTER_API_KEY, TMDB_API_KEY, scorer, fetch>>
        /\ IF fetched /= <<>>
           THEN \E all \in {ScoreAll(session_state, scored_from, fetched, sllms, 1) :
                               sllms \in [1..MaxShown -> AppScoreOutcomes]},
                   again \in FetchedValues(session_state) :
                    /\ session_state' = all.ss
                    /\ scored_from' = all.from
                    /\ movies' = again
                    /\ last' = Calls("score_all", all.invoked, all.calls, 2)
           ELSE /\ UNCHANGED <<session_state, scored_from>>
                /\ movies' = <<>>
                /\ last' = Calls("score_all", {}, 0, 1)

Init ==
    /\ InitKeys
    /\ scorer = IdleCall
    /\ fetch = IdleCall
    /\ FirstRun

Next ==
    \/ SelectGenre
    \/ EditRequest
    \/ MoveSlider
    \/ RecommendMovies
    \/ GetAIScore
    \/ TryAnotherSearch
    \/ ScoreAllPlots
    \/ ShowSummary

Spec == Init /\ [][Next]_vars

---------------------------------------------------------------------------
(* One call of each function on drawn arguments *)

\* genre arguments: taxonomy members, a capitalised one, an unknown one
FetchGenres == {"drama", "Comedy", "science fiction", "Noir"}

\* one call of get_tmdb_recommendations on the arguments and the network
\* drawn by InitFetch (retry_count >= 1: the default is 3)
FetchCall ==
    /\ ~fetch.done
    /\ fetch' = [fetch EXCEPT !.done = TRUE,
                   !.result = get_tmdb_recommendations(fetch.genre, fetch.num_movies,
                                                       fetch.retry_count, fetch.net)]
    /\ UNCHANGED <<OPENROUTER_API_KEY, TMDB_API_KEY, scorer, app>>

InitFetch ==
    /\ OPENROUTER_API_KEY = "key"
    /\ TMDB_API_KEY = "key"
    /\ scorer = IdleCall
    /\ FirstRun
    /\ fetch \in [done : {FALSE}, genre : FetchGenres,
                  num_movies : NumMoviesMin..MaxNumMovies,
                  retry_count : 1..MaxRetry, net : Nets, result : {None}]

NextFetch == FetchCall

SpecFetch == InitFetch /\ [][NextFetch]_vars

\* one call of score_plot_coherence on the arguments and the endpoint's answer
\* drawn by InitScore
ScoreCall ==
    /\ ~scorer.done
    /\ scorer' = [scorer EXCEPT !.done = TRUE,
                     !.result = score_plot_coherence(scorer.title, scorer.plot,
                                                     scorer.genre, scorer.llm)]
    /\ UNCHANGED <<OPENROUTER_API_KEY, TMDB_API_KEY, fetch, app>>

InitScore ==
    /\ OPENROUTER_API_KEY \in KeyValues
    /\ TMDB_API_KEY = "key"
    /\ scorer \in [done : {FALSE}, title : {"Heat"}, plot : Plots, genre : {"crime"},
                   llm : ScoreOutcomes, result : {None}]
    /\ fetch = IdleCall
    /\ FirstRun

NextScore == ScoreCall

SpecScore == InitScore /\ [][NextScore]_vars

---------------------------------------------------------------------------

---------------------------------------------------------------------------
(* Claims on get_tmdb_recommendations, under SpecFetch *)

FetchDone == fetch.done /\ fetch /= IdleCall

AllTimeouts(net) == \A i \in 1..Len(net.fails) : net.fails[i] = "ConnectTimeout"

\* the "results" list of the answer that ends the failures
FinalResults(net) == IF net.then.kind = "ok" THEN Get(net.then.data, "results", <<>>) ELSE <<>>

\* the call returned the first num_movies results of the final answer, in order
ReturnsFinalResults ==
    LET results  == FinalResults(fetch.net)
        returned == fetch.result.movies
    IN  /\ Len(returned) = (IF Len(results) < fetch.num_movies THEN Len(results) ELSE fetch.num_movies)
        /\ \A i \in 1..Len(returned) : returned[i].title = results[i].title
        /\ (Len(results) >= 1 => returned /= <<>>)

\* C2, as the claim words it: after N consecutive timeouts, N < retry_count,
\* and then a success, the call returns the result of that success (non-empty
\* when the success carries a result); after N >= retry_count consecutive
\* timeouts it returns the empty list and has made exactly N requests.
C2_ExactlyNAttempts ==
    (FetchDone /\ AllTimeouts(fetch.net)) =>
        LET N == Len(fetch.net.fails)
        IN  /\ (N < fetch.retry_count /\ fetch.net.then.kind = "ok") =>
                   (ReturnsFinalResults /\ fetch.result.attempts = N + 1)
            /\ (N >= fetch.retry_count) =>
                   (fetch.result.movies = <<>> /\ fetch.result.attempts = N)

\* C2, amended: after N consecutive timeouts, N < retry_count, and then a
\* success, the call returns the result of that success after N + 1 requests;
\* after N >= retry_count consecutive timeouts it returns the empty list and
\* has made exactly retry_count requests, however large N is.
C2_RetryProperty ==
    (FetchDone /\ AllTimeouts(fetch.net)) =>
        LET N == Len(fetch.net.fails)
        IN  /\ (N < fetch.retry_count /\ fetch.net.then.kind = "ok") =>
                   (ReturnsFinalResults /\ fetch.result.attempts = N + 1)
            /\ (N >= fetch.retry_count) =>
                   (fetch.result.movies = <<>> /\ fetch.result.attempts = fetch.retry_count)

\* two timeouts, then a success on the third and last attempt
C2_Witness ==
    /\ FetchDone /\ AllTimeouts(fetch.net)
    /\ Len(fetch.net.fails) = 2 /\ fetch.retry_count = 3
    /\ Len(FinalResults(fetch.net)) >= 1
    /\ fetch.result.movies /= <<>>
    /\ fetch.result.attempts = 3

\* C3: for every genre argument, an unknown one included, and every outcome
\* of every attempt, the call returns without raising a list of at least 0
\* and at most num_movies movies; an unknown genre is asked for under the
\* default provider code; the three failure exits return the same empty list.
C3_BoundedTotalFetch ==
    FetchDone =>
        /\ ~fetch.result.raised
        /\ Len(fetch.result.movies) >= 0
        /\ Len(fetch.result.movies) <= fetch.num_movies
        /\ fetch.result.genre_id \in {GENRE_MAP[g] : g \in Taxonomy}
        /\ (fetch.genre = "Noir" => fetch.result.genre_id = 18)
        /\ (fetch.genre = "Comedy" => fetch.result.genre_id = 35)
        /\ (fetch.result.report \in {"timeout", "request", "unexpected"} =>
                fetch.result.movies = <<>>)

\* an unknown genre, answered at once with more results than asked for
C3_Witness ==
    /\ FetchDone
    /\ fetch.genre = "Noir"
    /\ fetch.net.fails = <<>>
    /\ Len(FinalResults(fetch.net)) > fetch.num_movies
    /\ Len(fetch.result.movies) = fetch.num_movies

---------------------------------------------------------------------------
(* Claims on score_plot_coherence, under SpecScore *)

ScoreDone == scorer.done /\ scorer /= IdleCall

\* C4: with no LLM credential, or an empty plot, or the "No summary
\* available." plot, the scorer returns "N/A" and makes no network call.
C4_ShortCircuitNoNetwork ==
    (/\ ScoreDone
     /\ \/ OPENROUTER_API_KEY \in {None, ""}
        \/ scorer.plot \in {None, ""}
        \/ scorer.plot = "No summary available.")
    => (scorer.result.score = "N/A" /\ scorer.result.calls = 0)

\* the sentinel plot with a credential, where the endpoint would have
\* answered a valid score
C4_Witness ==
    /\ ScoreDone
    /\ OPENROUTER_API_KEY = "key"
    /\ scorer.plot = "No summary available."
    /\ scorer.llm = [kind |-> "reply", content |-> <<"7", ".", "5">>]
    /\ scorer.result = [score |-> "N/A", calls |-> 0]

\* the reply, as sent, is a decimal numeral with an optional minus sign
SignedNumeral(content) ==
    LET body == IF content /= <<>> /\ content[1] = "-" THEN Tail(content) ELSE content
    IN  /\ \A i \in 1..Len(body) : body[i] \in Digits \cup {"."}
        /\ FloatParses(body)

\* the number the reply states lies outside [1,10]
OutsideRange(content) ==
    \/ content[1] = "-"
    \/ ~InRange(FloatOf(content))

\* the strings "1.0/10" .. "10.0/10"
ScoreStrings == {ToString(t \div 10) \o "." \o ToString(t % 10) \o "/10" : t \in 10..100}

\* C5, as the claim words it: a reply that is a number outside [1,10] gives
\* "N/A", and whatever else is returned is a value of [1,10] with one decimal
\* place followed by "/10".
C5_OutOfRangeReplyUnavailable ==
    (ScoreDone /\ scorer.result.calls = 1 /\ scorer.llm.kind = "reply") =>
        /\ (SignedNumeral(scorer.llm.content) /\ OutsideRange(scorer.llm.content)) =>
               scorer.result.score = "N/A"
        /\ scorer.result.score /= "N/A" => scorer.result.score \in ScoreStrings

---------------------------------------------------------------------------
(* Claims on the script, under Spec *)

\* C1: whatever the classification endpoint does, the genre the run settles
\* on (selected_genre) is a key of GENRE_MAP, never None, and so is the
\* genre stored for the catalog fetch.
C1_ResolvedGenreInTaxonomy ==
    /\ selected_genre \in Taxonomy
    /\ "genre" \in DOMAIN session_state => session_state["genre"] \in Taxonomy

\* the classifier was asked, named no genre, and the default went on to the
\* catalog fetch
C1_Witness ==
    /\ user_request /= ""
    /\ OPENROUTER_API_KEY = "key"
    /\ detected_genre = None
    /\ selected_genre = "drama"
    /\ last.event = "recommend"
    /\ last.fetches = 1
    /\ session_state["genre"] = "drama"

\* the score keys of the session
Scored == ScoreKeys(session_state)

\* C6, as the claim words it: a scoring action, per movie or batch, does not
\* invoke the scorer for a movie that already holds a score, makes no
\* network call for it and leaves its stored score as it was.
C6_ScoringIdempotent ==
    [][last'.event \in {"score", "score_all"} =>
          \A idx \in 1..MaxShown :
              ScoreKey(idx) \in Scored =>
                  /\ idx \notin last'.scorer_invoked
                  /\ ScoreKey(idx) \in DOMAIN session_state'
                  /\ session_state'[ScoreKey(idx)] = session_state[ScoreKey(idx)]]_vars

\* C7, as the claim words it: whenever recommendations are on (Ready), also
\* with an empty list, the reset button is there to take; and a reset, once
\* taken, leaves the flag off and no score in the session.
C7_ResetAlwaysAvailable ==
    /\ Recommending(session_state) => ActionButtonsShown
    /\ last.event = "reset" => (~Recommending(session_state) /\ Scored = {})

\* C8: without the catalog credential the flag is never set and
\* get_tmdb_recommendations is never called.
C8_NoCatalogKeyNoFetch ==
    ~Truthy(TMDB_API_KEY) =>
        /\ ~Recommending(session_state)
        /\ last.fetches = 0
        /\ movies = <<>>

\* "Recommend Movies" pressed with the LLM credential but no catalog one
C8_Witness ==
    /\ TMDB_API_KEY = None
    /\ OPENROUTER_API_KEY = "key"
    /\ last.event = "recommend"
    /\ user_request /= ""

\* C9, as the claim words it: right after "Recommend Movies" starts a new
\* cycle, the session holds no score, every score there being one of the
\* prior cycle.
C9_NewCycleDropsScores ==
    (last.event = "recommend" /\ Recommending(session_state)) => Scored = {}

\* C10, as the claim words it: every score shown next to the movie drawn at
\* position idx was computed from the title and plot of that movie.
C10_ScoreBelongsToShownMovie ==
    \A idx \in 1..Len(movies) :
        ScoreKey(idx) \in Scored => scored_from[ScoreKey(idx)] = Given(movies[idx])

=============================================================================
